---- MODULE Spec2Model ----
(***************************************************************************)
(* Model of kommendorkapten/sigsim: prime-field arithmetic (pkg/field),   *)
(* the Weierstrass curve group law and the two order algorithms (pkg/ec), *)
(* trial-division factoring (pkg/math) and the ECDSA layer (pkg/ecdsa).   *)
(***************************************************************************)
EXTENDS Integers, Naturals, Sequences, FiniteSets, TLC

VARIABLES
    curve,      \* ec.Curve under test: [P, A, B, G, N, BS]
    pt,         \* the Point handed to OrderBG
    Parallel,   \* ec.Parallel, the worker count
    pcMain,     \* position of the OrderBG caller: "init", "recv", "done"
    pj,         \* job.pj, the baby-step table (sequence indexed from 1)
    q,          \* job.q, the anchor (p+1)*P
    jobs,       \* per worker: [start, stop, k, cnt, pc, jr]
    res,        \* the buffered result channel (capacity ChanCap)
    cancelled,  \* the context's cancellation flag
    ret,        \* OrderBG's return value (0 until it returns)
    key,        \* ecdsa.PrivateKey: [D, Pub] (Pub is the point D*G)
    sig1,       \* first signing call and its result
    sig2,       \* second signing call and its result
    verdict,    \* the Verify call made on sig1 and its result
    solved,     \* the solve call made on sig1, sig2 and its result
    call        \* a single library call: its name, arguments and result

bgVars == <<pt, Parallel, pcMain, pj, q, jobs, res, cancelled, ret>>

sigVars == <<key, sig1, sig2, verdict, solved>>

vars == <<curve, bgVars, sigVars, call>>

-----------------------------------------------------------------------------
(* Bounds of the model *)

MaxP == 11
MaxCoef == 2
MaxParallel == 3
MaxK == 12
MaxRootP == 23
MaxN == 200
MaxMp == 45

(* Program constants *)

BitLength == 64
ChanCap == 1
CheckEvery == 10000

-----------------------------------------------------------------------------
(* Go integer helpers: truncated division and remainder on int64 *)

GoDiv(x, y) ==
    IF (x >= 0) = (y > 0)
    THEN (IF x >= 0 THEN x ELSE -x) \div (IF y >= 0 THEN y ELSE -y)
    ELSE -((IF x >= 0 THEN x ELSE -x) \div (IF y >= 0 THEN y ELSE -y))

GoRem(x, y) == x - y * GoDiv(x, y)

(* 2^n modulo p, by n doublings: the residue a uint64 wrap-around adds *)
RECURSIVE TwoPowMod(_, _)
TwoPowMod(n, p) == IF n = 0 THEN 1 % p ELSE (2 * TwoPowMod(n - 1, p)) % p

-----------------------------------------------------------------------------
(* pkg/field: Finite *)

Element(p, i) == ~(i < 0) /\ ~(i >= p)

Canonicalize(p, i) ==
    IF i >= p THEN GoRem(i, p)
    ELSE IF i < 0 THEN i % p   \* for i < 0 { i += p }
    ELSE i

(* uint64(i) modulo p: a negative int64 converts to 2^64 + i *)
U64Mod(p, i) ==
    IF i >= 0 THEN i % p ELSE (i + TwoPowMod(BitLength, p)) % p

(* the operand taken as it comes, never lifted *)
LiftNever(p, i) == i

(* after `if i < 0 { i += p }` *)
Lift(p, i) == IF i < 0 THEN i + p ELSE i

(* the carry of bits.Add64: set when the two words sum to 2^64 or more,   *)
(* which for operands below 2^31 needs a lifted operand still negative    *)
AddCarry(p, i, j) ==
    LET a == Lift(p, i)
        b == Lift(p, j)
    IN IF a < 0 /\ b < 0 THEN 1
       ELSE IF a < 0 \/ b < 0 THEN (IF a + b >= 0 THEN 1 ELSE 0)
       ELSE 0

(* bits.Div64(carry, sum, p) panics when p <= carry *)
FAddPanics(p, i, j) == p <= AddCarry(p, i, j)

(* bits.Add64 keeps the carry, so Div64 reduces the exact 65-bit sum *)
FAdd(p, i, j) == (U64Mod(p, Lift(p, i)) + U64Mod(p, Lift(p, j))) % p

(* bits.Div64(hi, lo, p) panics when p <= hi.  For operands below 2^31    *)
(* the high word of the product is 0 unless a lifted operand is still     *)
(* negative (i < -p): it is then j - 1 for one negative operand and       *)
(* above 2^63 for two.                                                    *)
FMultiplyPanics(p, i, j) ==
    LET a == Lift(p, i)
        b == Lift(p, j)
    IN IF a < 0 /\ b < 0 THEN TRUE
       ELSE IF a < 0 THEN b > 0 /\ b - 1 >= p
       ELSE IF b < 0 THEN a > 0 /\ a - 1 >= p
       ELSE FALSE

(* bits.Mul64 keeps the high word, so Div64 reduces the exact product *)
FMultiply(p, i, j) == (U64Mod(p, Lift(p, i)) * U64Mod(p, Lift(p, j))) % p

RECURSIVE InverseLoop(_, _, _, _)
InverseLoop(t, r, newT, newR) ==
    IF newR /= 0
    THEN LET qq == GoDiv(r, newR)
         IN InverseLoop(newT, newR, t - qq * newT, r - qq * newR)
    ELSE [t |-> t, r |-> r]

(* returns [val, ok]; ok = FALSE is the "not invertible" error *)
Inverse(p, i) ==
    LET e == InverseLoop(0, p, 1, GoRem(i, p))
    IN IF e.r > 1 THEN [val |-> 0, ok |-> FALSE]
       ELSE [val |-> Canonicalize(p, e.t), ok |-> TRUE]

(* big.Int Div: Euclidean division, the remainder is never negative *)
EucDiv(x, y) == IF y > 0 THEN x \div y ELSE -(x \div (-y))

RECURSIVE InverseBigLoop(_, _, _, _)
InverseBigLoop(t, r, newT, newR) ==
    IF newR /= 0
    THEN LET qq == EucDiv(r, newR)
         IN InverseBigLoop(newT, newR, t - qq * newT, r - qq * newR)
    ELSE [t |-> t, r |-> r]

(* returns [val, ok]; the private canonicalize is big.Int Mod, in [0, p) *)
InverseBig(p, i) ==
    LET e == InverseBigLoop(0, p, 1, GoRem(i, p))
    IN IF e.r > 1 THEN [val |-> 0, ok |-> FALSE]
       ELSE [val |-> e.t % p, ok |-> TRUE]

ExponentiatePanics(p, i, j) == i >= p \/ j >= p

(* j is consumed bit by bit (j % 2 is bit b).  Once the remaining bits of  *)
(* j are all zero the later iterations only square the local i, which is  *)
(* not read again, so the scan stops there with the same r.               *)
RECURSIVE ExpLoop(_, _, _, _, _)
ExpLoop(p, b, r, i, j) ==
    IF b = BitLength \/ j = 0 THEN r
    ELSE ExpLoop(p, b + 1,
                 IF j % 2 = 1 THEN FMultiply(p, r, i) ELSE r,
                 FMultiply(p, i, i),
                 j \div 2)

Exponentiate(p, i, j) == Canonicalize(p, ExpLoop(p, 0, 1, i, j))

(* Sqrt panics on an operand at or above p *)
SqrtPanics(p, i) == i >= p

(* Sqrt returning x without squaring it back *)
SqrtNoCheck(p, i) ==
    IF GoRem(p, 4) /= 3 THEN [val |-> 0, ok |-> FALSE]
    ELSE IF i = 0 THEN [val |-> 0, ok |-> TRUE]
    ELSE [val |-> Canonicalize(p, Exponentiate(p, i, GoDiv(p + 1, 4))),
          ok |-> TRUE]

(* returns [val, ok]; ok = FALSE is either error.  Called with i < p. *)
Sqrt(p, i) ==
    IF GoRem(p, 4) /= 3 THEN [val |-> 0, ok |-> FALSE]
    ELSE IF i = 0 THEN [val |-> 0, ok |-> TRUE]
    ELSE LET x == Exponentiate(p, i, GoDiv(p + 1, 4))
             j == FMultiply(p, x, x)
         IN IF i = j THEN [val |-> Canonicalize(p, x), ok |-> TRUE]
            ELSE [val |-> 0, ok |-> FALSE]

-----------------------------------------------------------------------------
(* pkg/math *)

RECURSIVE PFTwos(_, _)
PFTwos(n, pfs) ==
    IF n % 2 = 0 THEN PFTwos(n \div 2, Append(pfs, 2))
    ELSE [n |-> n, pfs |-> pfs]

RECURSIVE PFOdd(_, _, _)
PFOdd(n, i, pfs) ==
    IF i * i <= n
    THEN IF n % i = 0 THEN PFOdd(n \div i, i, Append(pfs, i))
         ELSE PFOdd(n, i + 2, pfs)
    ELSE [n |-> n, pfs |-> pfs]

(* PrimeFactors without the append of the residual *)
PrimeFactorsNoResidual(n) ==
    LET t == PFTwos(n, <<>>)
        o == PFOdd(t.n, 3, t.pfs)
    IN o.pfs

(* defined for n >= 1 (n = 0 never leaves the first loop) *)
PrimeFactors(n) ==
    LET t == PFTwos(n, <<>>)
        o == PFOdd(t.n, 3, t.pfs)
    IN IF o.n > 2 THEN Append(o.pfs, o.n) ELSE o.pfs

-----------------------------------------------------------------------------
(* pkg/ec: Point and Curve *)

Pt(x, y) == [X |-> x, Y |-> y, Inf |-> FALSE]

InfPoint == [X |-> 0, Y |-> 0, Inf |-> TRUE]

(* no curve constructed yet *)
NoCurve == [P |-> 0, A |-> 0, B |-> 0, G |-> InfPoint, N |-> 0, BS |-> 0]

Equal(p, cmp) ==
    IF p.X /= cmp.X THEN FALSE
    ELSE IF p.Y /= cmp.Y THEN FALSE
    ELSE p.Inf = cmp.Inf

(* 4a^3 + 27b^2 in unbounded precision *)
Discriminant(c) == 4 * c.A * c.A * c.A + 27 * c.B * c.B

(* Add taking the chord slope also when the two points are equal *)
AddNoDoubling(c, p, qq) ==
    IF p.Inf THEN qq
    ELSE IF qq.Inf THEN p
    ELSE LET f == c.P
             den == FAdd(f, qq.X, -p.X)
             num == FAdd(f, qq.Y, -p.Y)
             inv == Inverse(f, den)
         IN IF ~inv.ok THEN InfPoint
            ELSE LET m == FMultiply(f, num, inv.val)
                     rx == FAdd(f, FAdd(f, FMultiply(f, m, m), -p.X), -qq.X)
                     ry == FAdd(f, FMultiply(f, FAdd(f, p.X, -rx), m), -p.Y)
                 IN Pt(rx, ry)

Add(c, p, qq) ==
    IF p.Inf THEN qq
    ELSE IF qq.Inf THEN p
    ELSE LET f == c.P
             den == IF Equal(p, qq)
                    THEN FMultiply(f, 2, p.Y)
                    ELSE FAdd(f, qq.X, -p.X)
             num == IF Equal(p, qq)
                    THEN FAdd(f, FMultiply(f, 3, FMultiply(f, p.X, p.X)), c.A)
                    ELSE FAdd(f, qq.Y, -p.Y)
             inv == Inverse(f, den)
         IN IF ~inv.ok THEN InfPoint   \* infinite slope
            ELSE LET m == FMultiply(f, num, inv.val)
                     rx == FAdd(f, FAdd(f, FMultiply(f, m, m), -p.X), -qq.X)
                     ry == FAdd(f, FMultiply(f, FAdd(f, p.X, -rx), m), -p.Y)
                 IN Pt(rx, ry)

(* k is consumed bit by bit: k % 2 is bit b, k \div 2 the arithmetic      *)
(* shift.  Once the remaining bits of k are all zero the later iterations *)
(* only double the local p, which is not read again, so the scan stops    *)
(* there with the same r.                                                 *)
RECURSIVE ScalarMLoop(_, _, _, _, _)
ScalarMLoop(c, b, k, r, p) ==
    IF b = BitLength \/ k = 0 THEN r
    ELSE ScalarMLoop(c, b + 1, k \div 2,
                     IF k % 2 = 1 THEN Add(c, r, p) ELSE r,
                     Add(c, p, p))

(* ScalarM with the bit scan started at bit 1 *)
ScalarMFromBitOne(c, k, p) ==
    ScalarMLoop(c, 1, k \div 2, InfPoint, Add(c, p, p))

ScalarM(c, k, p) == ScalarMLoop(c, 0, k, InfPoint, p)

Valid(c, p) ==
    IF p.Inf THEN TRUE
    ELSE LET lhs == Exponentiate(c.P, p.Y, 2)
             rhs == FAdd(c.P,
                         FAdd(c.P, Exponentiate(c.P, p.X, 3),
                              FMultiply(c.P, c.A, p.X)),
                         c.B)
         IN lhs = rhs

(* Valid panics when Exponentiate does: a coordinate at or above p *)
ValidPanics(c, p) ==
    /\ ~p.Inf
    /\ ExponentiatePanics(c.P, p.Y, 2) \/ ExponentiatePanics(c.P, p.X, 3)

(* Curve.Y: returns [val, ok] *)
Y(c, x) ==
    LET rhs == FAdd(c.P,
                    FAdd(c.P, Exponentiate(c.P, x, 3), FMultiply(c.P, c.A, x)),
                    c.B)
    IN Sqrt(c.P, rhs)

(* the square-root path without the mirrored point (x, -y) *)
PointsAtNoMirror(c, x) ==
    LET y == Y(c, x)
        p == Pt(x, y.val)
    IN IF ~y.ok THEN {}
       ELSE IF ~Valid(c, p) THEN {}
       ELSE {p}

(* what one x contributes on the square-root path of Points *)
PointsAt(c, x) ==
    LET y == Y(c, x)
        p == Pt(x, y.val)
    IN IF ~y.ok THEN {}
       ELSE IF ~Valid(c, p) THEN {}
       ELSE IF p.Y > 0 THEN {p, Pt(x, -p.Y + c.P)}
       ELSE {p}

(* the keys of the map Points fills; the returned slice lists each once *)
Points(c) ==
    IF GoRem(c.P, 4) = 3
    THEN {InfPoint} \cup UNION { PointsAt(c, x) : x \in 0..(c.P - 1) }
    ELSE {InfPoint} \cup
         { p \in { Pt(x, y) : x \in 0..(c.P - 1), y \in 0..(c.P - 1) } :
             Valid(c, p) }

(* the naive order; 0 stands for the panic past 4p additions *)
RECURSIVE OrderLoop(_, _, _, _)
OrderLoop(c, p, pp, order) ==
    LET cp == Add(c, pp, p)
    IN IF cp = p THEN order + 1
       ELSE IF order + 1 > 4 * c.P THEN 0
       ELSE OrderLoop(c, p, cp, order + 1)

(* Order with the running sum started at the identity *)
OrderFromIdentity(c, p) == OrderLoop(c, p, InfPoint, 0)

Order(c, p) == OrderLoop(c, p, p, 0)

-----------------------------------------------------------------------------
(* pkg/ec: OrderBG, baby-step giant-step with Parallel workers *)

(* int64(math.Ceil(sqrt(sqrt(p)) + 0.5)): the least n with                *)
(* n - 1/2 >= p^(1/4), that is (2n - 1)^4 >= 16p                          *)
RECURSIVE CeilRootHalf(_, _)
CeilRootHalf(p, n) ==
    IF (2 * n - 1) * (2 * n - 1) * (2 * n - 1) * (2 * n - 1) >= 16 * p
    THEN n
    ELSE CeilRootHalf(p, n + 1)

BabySteps(p) == CeilRootHalf(p, 0) + 1

(* pj[j] = j * p for j in [0, m), kept 1-indexed *)
BabyTable(c, p, m) == [j \in 1..m |-> ScalarM(c, j - 1, p)]

(* the first j with cand.X == pj[j].X, or -1 *)
RECURSIVE FirstMatch(_, _, _)
FirstMatch(tab, cand, j) ==
    IF j >= Len(tab) THEN -1
    ELSE IF cand.X = tab[j + 1].X THEN j
    ELSE FirstMatch(tab, cand, j + 1)

(* the factor-reduction loop over pfs *)
RECURSIVE ReduceLoop(_, _, _, _, _)
ReduceLoop(c, p, pfs, i, mp) ==
    IF i > Len(pfs) THEN mp
    ELSE LET s == mp \div pfs[i]
         IN IF s = 0 THEN mp
            ELSE IF ScalarM(c, s, p).Inf
                 THEN ReduceLoop(c, p, pfs, i, s)
                 ELSE ReduceLoop(c, p, pfs, i + 1, mp)

(* the values mp takes, one per iteration of the factor-reduction loop *)
RECURSIVE ReduceTrace(_, _, _, _, _)
ReduceTrace(c, p, pfs, i, mp) ==
    IF i > Len(pfs) THEN <<>>
    ELSE LET s == mp \div pfs[i]
         IN IF s = 0 THEN <<>>
            ELSE IF ScalarM(c, s, p).Inf
                 THEN <<s>> \o ReduceTrace(c, p, pfs, i, s)
                 ELSE <<mp>> \o ReduceTrace(c, p, pfs, i + 1, mp)

(* what OrderBG returns once it has received jr *)
Resolve(c, p, jr) ==
    LET mp == IF ScalarM(c, jr.mp + jr.j, p).Inf
              THEN jr.mp + jr.j
              ELSE jr.mp - jr.j
    IN ReduceLoop(c, p, PrimeFactors(mp), 1, mp)

NoRes == [mp |-> 0, j |-> 0]

(* OrderBG up to the receive: table, anchor and one job per worker *)
Dispatch ==
    /\ pcMain = "init"
    /\ LET m == BabySteps(curve.P)
           chunk == curve.P \div Parallel
       IN /\ pj' = BabyTable(curve, pt, m)
          /\ q' = ScalarM(curve, curve.P + 1, pt)
          /\ jobs' = [i \in 0..(Parallel - 1) |->
                        LET start == i * chunk
                            stop == IF i = Parallel - 1 THEN curve.P
                                    ELSE (i + 1) * chunk
                        IN [start |-> start, stop |-> stop, k |-> start,
                            cnt |-> 0, jr |-> NoRes,
                            pc |-> IF start < stop THEN "scan"
                                   ELSE "exhausted"]]
    /\ pcMain' = "recv"
    /\ UNCHANGED <<curve, pt, Parallel, res, cancelled, ret, sigVars, call>>

(* one iteration of approxOrder's loop over k *)
Scan(i) ==
    /\ pcMain /= "init"
    /\ i \in DOMAIN jobs
    /\ jobs[i].pc = "scan"
    /\ LET job == jobs[i]
           m == Len(pj)
           cand == Add(curve, q, ScalarM(curve, job.k * 2 * m, pt))
           j == FirstMatch(pj, cand, 0)
           cnt == job.cnt + 1
       IN jobs' = [jobs EXCEPT ![i] =
             IF j >= 0
             THEN [job EXCEPT !.pc = "send",
                              !.jr = [mp |-> curve.P + 1 + (job.k * 2 * m),
                                      j |-> j]]
             ELSE IF cnt % CheckEvery = 0 /\ cancelled
             THEN [job EXCEPT !.cnt = cnt, !.pc = "cancelled"]
             ELSE [job EXCEPT !.cnt = cnt, !.k = job.k + 1,
                              !.pc = IF job.k + 1 < job.stop THEN "scan"
                                     ELSE "exhausted"]]
    /\ UNCHANGED <<curve, pt, Parallel, pcMain, pj, q, res, cancelled, ret,
                   sigVars, call>>

(* job.c <- jobRes{...}; return *)
Send(i) ==
    /\ i \in DOMAIN jobs
    /\ jobs[i].pc = "send"
    /\ Len(res) < ChanCap
    /\ res' = Append(res, jobs[i].jr)
    /\ jobs' = [jobs EXCEPT ![i].pc = "sent"]
    /\ UNCHANGED <<curve, pt, Parallel, pcMain, pj, q, cancelled, ret, sigVars,
                   call>>

(* jr = <-res; stop(); sign test; factor reduction; return mp *)
Receive ==
    /\ pcMain = "recv"
    /\ Len(res) > 0
    /\ res' = Tail(res)
    /\ cancelled' = TRUE
    /\ ret' = Resolve(curve, pt, Head(res))
    /\ pcMain' = "done"
    /\ UNCHANGED <<curve, pt, Parallel, pj, q, jobs, sigVars, call>>

-----------------------------------------------------------------------------
(* pkg/ec: Curve.Verify *)

RECURSIVE BitLen(_)
BitLen(n) == IF n = 0 THEN 0 ELSE 1 + BitLen(n \div 2)

IsPrime(n) == n > 1 /\ \A d \in 2..(n - 1) : n % d /= 0

(* TRUE iff Curve.Verify returns nil *)
CurveVerify(c) ==
    /\ IsPrime(c.P)
    /\ Discriminant(c) /= 0
    /\ Valid(c, c.G)
    /\ Order(c, c.G) = c.N
    /\ IsPrime(c.N)
    /\ BitLen(c.N) = c.BS

(* NewCurve: returns [err, c]; the bit size is the highest set bit of P    *)
(* among bits 63..1, plus one                                             *)
NewCurve(p, a, b) ==
    LET bs == IF p >= 2 THEN BitLen(p) ELSE 0
        c == [P |-> p, A |-> a, B |-> b, G |-> Pt(0, 0), N |-> 0, BS |-> bs]
    IN IF ~Element(p, a) THEN [err |-> "a not an element", c |-> NoCurve]
       ELSE IF ~Element(p, b) THEN [err |-> "b not an element", c |-> NoCurve]
       ELSE IF Discriminant(c) = 0
            THEN [err |-> "parameters not valid", c |-> NoCurve]
       ELSE [err |-> "nil", c |-> c]

-----------------------------------------------------------------------------
(* pkg/ecdsa *)

RECURSIVE BigEndian(_)
BigEndian(b) ==
    IF Len(b) = 0 THEN 0
    ELSE 256 * BigEndian(SubSeq(b, 1, Len(b) - 1)) + b[Len(b)]

RECURSIVE Pow2(_)
Pow2(n) == IF n = 0 THEN 1 ELSE 2 * Pow2(n - 1)

(* the bs most significant bits of the first (bs + 7) / 8 bytes of b *)
truncate(b, bs) ==
    LET nb == (bs + 7) \div 8
        rem == (8 - (bs % 8)) % 8
    IN BigEndian(SubSeq(b, 1, nb)) \div Pow2(rem)

generateKey(c, d) == [D |-> d, Pub |-> ScalarM(c, d, c.G)]

(* rawSign with s = (z + r)/k: the private key left out of s *)
rawSignNoKey(c, pk, k, h) ==
    LET z == truncate(h, c.BS)
        p == ScalarM(c, k, c.G)
        r == Canonicalize(c.N, p.X)
        inv == Inverse(c.N, k)
        s == FMultiply(c.N, inv.val, FAdd(c.N, z, r))
    IN IF r = 0 THEN [r |-> 0, s |-> 0, err |-> "errInvK"]
       ELSE IF ~inv.ok THEN [r |-> 0, s |-> 0, err |-> "errInvK"]
       ELSE IF s = 0 THEN [r |-> 0, s |-> 0, err |-> "errInvK"]
       ELSE [r |-> r, s |-> s, err |-> "nil"]

(* rawSign with p = k * Pub: the public point taken for the generator *)
rawSignPubBase(c, pk, k, h) ==
    LET z == truncate(h, c.BS)
        p == ScalarM(c, k, pk.Pub)
        r == Canonicalize(c.N, p.X)
        inv == Inverse(c.N, k)
        s == FMultiply(c.N, inv.val, FAdd(c.N, z, FMultiply(c.N, r, pk.D)))
    IN IF r = 0 THEN [r |-> 0, s |-> 0, err |-> "errInvK"]
       ELSE IF ~inv.ok THEN [r |-> 0, s |-> 0, err |-> "errInvK"]
       ELSE IF s = 0 THEN [r |-> 0, s |-> 0, err |-> "errInvK"]
       ELSE [r |-> r, s |-> s, err |-> "nil"]

(* rawSign without the final test of s against 0 *)
rawSignNoSCheck(c, pk, k, h) ==
    LET z == truncate(h, c.BS)
        p == ScalarM(c, k, c.G)
        r == Canonicalize(c.N, p.X)
        inv == Inverse(c.N, k)
        s == FMultiply(c.N, inv.val, FAdd(c.N, z, FMultiply(c.N, r, pk.D)))
    IN IF r = 0 THEN [r |-> 0, s |-> 0, err |-> "errInvK"]
       ELSE IF ~inv.ok THEN [r |-> 0, s |-> 0, err |-> "errInvK"]
       ELSE [r |-> r, s |-> s, err |-> "nil"]

(* returns [r, s, err] *)
rawSign(c, pk, k, h) ==
    LET z == truncate(h, c.BS)
        p == ScalarM(c, k, c.G)
        r == Canonicalize(c.N, p.X)
        inv == Inverse(c.N, k)
        s == FMultiply(c.N, inv.val, FAdd(c.N, z, FMultiply(c.N, r, pk.D)))
    IN IF r = 0 THEN [r |-> 0, s |-> 0, err |-> "errInvK"]
       ELSE IF ~inv.ok THEN [r |-> 0, s |-> 0, err |-> "errInvK"]
       ELSE IF s = 0 THEN [r |-> 0, s |-> 0, err |-> "errInvK"]
       ELSE [r |-> r, s |-> s, err |-> "nil"]

(* Verify without the final comparison of cp.X with r *)
VerifyNoCompare(c, pubP, r, s, h) ==
    IF pubP.Inf THEN FALSE
    ELSE IF ~Valid(c, pubP) THEN FALSE
    ELSE IF ~ScalarM(c, c.N, pubP).Inf THEN FALSE
    ELSE IF r < 1 \/ r >= c.N THEN FALSE
    ELSE IF s < 1 \/ s >= c.N THEN FALSE
    ELSE LET z == truncate(h, c.BS)
             inv == Inverse(c.N, s)
             u1 == FMultiply(c.N, z, inv.val)
             u2 == FMultiply(c.N, r, inv.val)
             cp == Add(c, ScalarM(c, u1, c.G), ScalarM(c, u2, pubP))
         IN IF ~inv.ok THEN FALSE
            ELSE IF cp.Inf THEN FALSE
            ELSE TRUE

Verify(c, pubP, r, s, h) ==
    IF pubP.Inf THEN FALSE
    ELSE IF ~Valid(c, pubP) THEN FALSE
    ELSE IF ~ScalarM(c, c.N, pubP).Inf THEN FALSE
    ELSE IF r < 1 \/ r >= c.N THEN FALSE
    ELSE IF s < 1 \/ s >= c.N THEN FALSE
    ELSE LET z == truncate(h, c.BS)
             inv == Inverse(c.N, s)
             u1 == FMultiply(c.N, z, inv.val)
             u2 == FMultiply(c.N, r, inv.val)
             cp == Add(c, ScalarM(c, u1, c.G), ScalarM(c, u2, pubP))
         IN IF ~inv.ok THEN FALSE
            ELSE IF cp.Inf THEN FALSE
            ELSE Canonicalize(c.N, cp.X) = r

(* returns [d, err] *)
solve(c, r, s1, s2, h1, h2) ==
    LET z1 == truncate(h1, c.BS)
        z2 == truncate(h2, c.BS)
        n == c.N
        invS == Inverse(n, FAdd(n, s2, -s1))
        k == FMultiply(n, FAdd(n, z2, -z1), invS.val)
        invR == Inverse(n, r)
        d1 == FMultiply(n, FAdd(n, FMultiply(n, s1, k), -z1), invR.val)
        d2 == FMultiply(n, FAdd(n, FMultiply(n, s2, k), -z2), invR.val)
    IN IF ~invS.ok THEN [d |-> 0, err |-> "errInverseS"]
       ELSE IF ~invR.ok THEN [d |-> 0, err |-> "errInverseR"]
       ELSE IF d1 /= d2 THEN [d |-> 0, err |-> "errMismatch"]
       ELSE [d |-> d1, err |-> "nil"]

(* Verify panics when Valid does, on a finite public point *)
VerifyPanics(c, pubP) == ~pubP.Inf /\ ValidPanics(c, pubP)

NoKey == [D |-> 0, Pub |-> InfPoint]

NoSig == [via |-> "none", d |-> 0, k |-> 0, h |-> <<>>,
          r |-> 0, s |-> 0, err |-> "nil"]

NoVerdict == [h |-> <<>>, ok |-> FALSE]

NoSolved == [d |-> 0, err |-> "none"]

NoCall == [op |-> "none"]

(* digests, by their leading byte: every 3-bit prefix, and 1 and 255 for  *)
(* bits that truncation discards                                          *)
DigestBytes == {0, 1, 32, 64, 96, 128, 160, 192, 224, 255}

Digests == { <<b>> : b \in DigestBytes }

(* GenerateKey: d drawn from [0, N), drawn again while it is 0.  A failing *)
(* random source returns no key and leaves the state as it is.            *)
GenerateKey ==
    /\ sig2 = NoSig /\ verdict = NoVerdict /\ solved = NoSolved
    /\ \E d \in { x \in 0..(curve.N - 1) : x > 0 } :
          key' = generateKey(curve, d)
    /\ UNCHANGED <<curve, bgVars, sig1, sig2, verdict, solved, call>>

SigOf(via, k, h, out) ==
    [via |-> via, d |-> key.D, k |-> k, h |-> h,
     r |-> out.r, s |-> out.s, err |-> out.err]

(* a rawSign call with a nonce chosen by the caller *)
RawSignCall ==
    /\ key /= NoKey
    /\ sig1.via \in {"none", "rawSign"}
    /\ sig2 = NoSig /\ verdict = NoVerdict /\ solved = NoSolved
    /\ \E k \in 0..curve.N, h \in Digests :
          LET rec == SigOf("rawSign", k, h, rawSign(curve, key, k, h))
          IN IF sig1 = NoSig
             THEN sig1' = rec /\ sig2' = sig2
             ELSE sig2' = rec /\ sig1' = sig1
    /\ UNCHANGED <<curve, bgVars, key, verdict, solved, call>>

(* Sign: k drawn from [0, N) until it is not 0, then rawSign; or the      *)
(* random source fails                                                    *)
SignCall ==
    /\ key /= NoKey
    /\ sig1 = NoSig
    /\ \E h \in Digests :
          \/ \E k \in { x \in 0..(curve.N - 1) : x /= 0 } :
                sig1' = SigOf("Sign", k, h, rawSign(curve, key, k, h))
          \/ sig1' = SigOf("Sign", 0, h, [r |-> 0, s |-> 0, err |-> "errRand"])
    /\ UNCHANGED <<curve, bgVars, key, sig2, verdict, solved, call>>

(* Verify(pub, r, s, h) on the first signature, against any digest *)
VerifyCall ==
    /\ sig1 /= NoSig
    /\ sig2 = NoSig /\ verdict = NoVerdict
    /\ \E h \in Digests :
          verdict' = [h |-> h,
                      ok |-> Verify(curve, key.Pub, sig1.r, sig1.s, h)]
    /\ UNCHANGED <<curve, bgVars, key, sig1, sig2, solved, call>>

(* solve(c, r1, s1, s2, h1, h2) on two signatures that both succeeded *)
SolveCall ==
    /\ sig1 /= NoSig /\ sig2 /= NoSig
    /\ sig1.err = "nil" /\ sig2.err = "nil"
    /\ solved = NoSolved
    /\ solved' = solve(curve, sig1.r, sig1.s, sig2.s, sig1.h, sig2.h)
    /\ UNCHANGED <<curve, bgVars, key, sig1, sig2, verdict, call>>

-----------------------------------------------------------------------------
(* Inputs of the order search: non-singular curves over small primes *)

TestCurve(p, a, b) ==
    [P |-> p, A |-> a, B |-> b, G |-> Pt(0, 0), N |-> 0, BS |-> 0]

SmallCurves ==
    { TestCurve(p, a, b) : <<p, a, b>> \in
        { t \in (4..MaxP) \X (0..MaxCoef) \X (0..MaxCoef) :
            /\ IsPrime(t[1])
            /\ t[2] < t[1] /\ t[3] < t[1]
            /\ (4 * t[2] * t[2] * t[2] + 27 * t[3] * t[3]) % t[1] /= 0 } }

FinitePoints(c) ==
    { p \in { Pt(x, y) : x \in 0..(c.P - 1), y \in 0..(c.P - 1) } :
        Valid(c, p) }

Init ==
    /\ curve \in SmallCurves
    /\ pt \in FinitePoints(curve)
    /\ Parallel \in 1..MaxParallel
    /\ pcMain = "init"
    /\ pj = <<>>
    /\ q = InfPoint
    /\ jobs = <<>>
    /\ res = <<>>
    /\ cancelled = FALSE
    /\ ret = 0
    /\ key = NoKey
    /\ sig1 = NoSig
    /\ sig2 = NoSig
    /\ verdict = NoVerdict
    /\ solved = NoSolved
    /\ call = NoCall

Next ==
    \/ Dispatch
    \/ \E i \in 0..(MaxParallel - 1) : Scan(i)
    \/ \E i \in 0..(MaxParallel - 1) : Send(i)
    \/ Receive

Spec == Init /\ [][Next]_vars

-----------------------------------------------------------------------------
(* Inputs of the signature scheme: curves with a generator of prime order *)

CurveA == [P |-> 7, A |-> 1, B |-> 4, G |-> Pt(4, 3), N |-> 5, BS |-> 3]

CurveB == [P |-> 7, A |-> -3, B |-> 4, G |-> Pt(1, 3), N |-> 5, BS |-> 3]

SigCurves == { c \in {CurveA, CurveB} : CurveVerify(c) }

InitSig ==
    /\ curve \in SigCurves
    /\ pt = InfPoint
    /\ Parallel = 1
    /\ pcMain = "idle"
    /\ pj = <<>>
    /\ q = InfPoint
    /\ jobs = <<>>
    /\ res = <<>>
    /\ cancelled = FALSE
    /\ ret = 0
    /\ key = NoKey
    /\ sig1 = NoSig
    /\ sig2 = NoSig
    /\ verdict = NoVerdict
    /\ solved = NoSolved
    /\ call = NoCall

NextSig ==
    \/ GenerateKey
    \/ RawSignCall
    \/ SignCall
    \/ VerifyCall
    \/ SolveCall

SpecSig == InitSig /\ [][NextSig]_vars

-----------------------------------------------------------------------------
(* Single calls of the library: field, curve and point operations *)

Moduli == 1..MaxP

(* operands around [-p, p] *)
Operands(p) == (-(p + 1))..(p + 1)

(* Finite.Add(i, j) on NewFinite(p) *)
FieldAddCall ==
    /\ curve = NoCurve /\ call = NoCall
    /\ \E p \in Moduli : \E i \in Operands(p), j \in Operands(p) :
          call' = [op |-> "Finite.Add", p |-> p, i |-> i, j |-> j,
                   panics |-> FAddPanics(p, i, j),
                   r |-> IF FAddPanics(p, i, j) THEN 0 ELSE FAdd(p, i, j)]
    /\ UNCHANGED <<curve, bgVars, sigVars>>

(* Finite.Multiply(i, j) on NewFinite(p) *)
FieldMultiplyCall ==
    /\ curve = NoCurve /\ call = NoCall
    /\ \E p \in Moduli : \E i \in Operands(p), j \in Operands(p) :
          call' = [op |-> "Finite.Multiply", p |-> p, i |-> i, j |-> j,
                   panics |-> FMultiplyPanics(p, i, j),
                   r |-> IF FMultiplyPanics(p, i, j) THEN 0
                         ELSE FMultiply(p, i, j)]
    /\ UNCHANGED <<curve, bgVars, sigVars>>

(* Finite.Inverse(i) on NewFinite(p) *)
InverseCall ==
    /\ curve = NoCurve /\ call = NoCall
    /\ \E p \in Moduli : \E i \in (-(2 * p))..(2 * p) :
          call' = [op |-> "Inverse", p |-> p, i |-> i,
                   val |-> Inverse(p, i).val, ok |-> Inverse(p, i).ok,
                   big |-> InverseBig(p, i)]
    /\ UNCHANGED <<curve, bgVars, sigVars>>

(* Finite.Sqrt(i) on NewFinite(p) *)
SqrtCall ==
    /\ curve = NoCurve /\ call = NoCall
    /\ \E p \in 1..MaxRootP : \E i \in (-1)..p :
          call' = [op |-> "Sqrt", p |-> p, i |-> i,
                   panics |-> SqrtPanics(p, i),
                   val |-> IF SqrtPanics(p, i) THEN 0 ELSE Sqrt(p, i).val,
                   ok |-> IF SqrtPanics(p, i) THEN FALSE ELSE Sqrt(p, i).ok]
    /\ UNCHANGED <<curve, bgVars, sigVars>>

(* math.PrimeFactors(n) *)
PrimeFactorsCall ==
    /\ curve = NoCurve /\ call = NoCall
    /\ \E n \in 1..MaxN :
          call' = [op |-> "PrimeFactors", n |-> n, pfs |-> PrimeFactors(n)]
    /\ UNCHANGED <<curve, bgVars, sigVars>>

(* Point values, the identity with and without coordinates among them *)
PointValues == [X : 0..2, Y : 0..1, Inf : BOOLEAN]

(* p.Equal(cmp) *)
EqualCall ==
    /\ curve = NoCurve /\ call = NoCall
    /\ \E p \in PointValues, cmp \in PointValues :
          call' = [op |-> "Equal", p |-> p, cmp |-> cmp, eq |-> Equal(p, cmp)]
    /\ UNCHANGED <<curve, bgVars, sigVars>>

(* NewCurve(NewFinite(p), a, b) *)
NewCurveCall ==
    /\ curve = NoCurve /\ call = NoCall
    /\ \E p \in Moduli : \E a \in (-1)..p, b \in (-1)..p :
          call' = [op |-> "NewCurve", p |-> p, a |-> a, b |-> b,
                   err |-> NewCurve(p, a, b).err, c |-> NewCurve(p, a, b).c]
    /\ UNCHANGED <<curve, bgVars, sigVars>>

(* curves over small primes, singular ones included *)
LibCurves ==
    { TestCurve(p, a, b) : <<p, a, b>> \in
        { t \in (4..MaxP) \X (0..MaxCoef) \X (0..MaxCoef) :
            IsPrime(t[1]) /\ t[2] < t[1] /\ t[3] < t[1] } }

AllPoints(c) == FinitePoints(c) \cup {InfPoint}

(* Add on three points of the curve, in both groupings and both orders *)
AddCall ==
    /\ curve /= NoCurve /\ call = NoCall
    /\ \E P \in AllPoints(curve), Q \in AllPoints(curve),
          R \in AllPoints(curve) :
          call' = [op |-> "Add", P |-> P, Q |-> Q, R |-> R,
                   pq |-> Add(curve, P, Q),
                   qp |-> Add(curve, Q, P),
                   lhs |-> Add(curve, Add(curve, P, Q), R),
                   rhs |-> Add(curve, P, Add(curve, Q, R))]
    /\ UNCHANGED <<curve, bgVars, sigVars>>

(* ScalarM(k, P), and ScalarM nested in both orders with a second scalar *)
ScalarMCall ==
    /\ curve /= NoCurve /\ call = NoCall
    /\ \E P \in AllPoints(curve), k \in 0..MaxK, d \in 0..MaxK :
          call' = [op |-> "ScalarM", P |-> P, k |-> k, d |-> d,
                   r |-> ScalarM(curve, k, P),
                   kd |-> ScalarM(curve, k, ScalarM(curve, d, P)),
                   dk |-> ScalarM(curve, d, ScalarM(curve, k, P))]
    /\ UNCHANGED <<curve, bgVars, sigVars>>

(* Points() *)
PointsCall ==
    /\ curve /= NoCurve /\ call = NoCall
    /\ call' = [op |-> "Points", pts |-> Points(curve)]
    /\ UNCHANGED <<curve, bgVars, sigVars>>

(* Order(P) *)
OrderCall ==
    /\ curve /= NoCurve /\ call = NoCall
    /\ \E P \in AllPoints(curve) :
          call' = [op |-> "Order", P |-> P, n |-> Order(curve, P)]
    /\ UNCHANGED <<curve, bgVars, sigVars>>

(* the factor-reduction loop of OrderBG entered with a value mp that *)
(* sends P to the identity                                            *)
ReduceCall ==
    /\ curve /= NoCurve /\ call = NoCall
    /\ \E P \in AllPoints(curve), mp \in 1..MaxMp :
          /\ ScalarM(curve, mp, P).Inf
          /\ call' = [op |-> "Reduce", P |-> P, mp |-> mp,
                      pfs |-> PrimeFactors(mp),
                      steps |-> ReduceTrace(curve, P, PrimeFactors(mp), 1, mp),
                      out |-> ReduceLoop(curve, P, PrimeFactors(mp), 1, mp)]
    /\ UNCHANGED <<curve, bgVars, sigVars>>

(* public points as a caller may build them: coordinates also outside    *)
(* [0, p), with or without the Inf flag                                   *)
PublicPoints(c) == [X : (-1)..c.P, Y : (-1)..c.P, Inf : BOOLEAN]

(* a caller fills in PublicKey{C: c, P: p} without holding a private key *)
BuildPublicKey ==
    /\ curve /= NoCurve /\ curve.N > 0 /\ call = NoCall
    /\ \E pubP \in PublicPoints(curve) :
          /\ key' = [D |-> 0, Pub |-> pubP]
          /\ call' = [op |-> "PublicKey"]
    /\ UNCHANGED <<curve, bgVars, sig1, sig2, verdict, solved>>

(* Verify(pub, r, s, h) on that public key, for any pair (r, s) *)
VerifyAny ==
    /\ call.op = "PublicKey"
    /\ \E r \in 0..curve.N, s \in 0..curve.N, h \in Digests :
          call' = [op |-> "Verify", pub |-> key.Pub, r |-> r, s |-> s, h |-> h,
                   panics |-> VerifyPanics(curve, key.Pub),
                   ok |-> IF VerifyPanics(curve, key.Pub) THEN FALSE
                          ELSE Verify(curve, key.Pub, r, s, h)]
    /\ UNCHANGED <<curve, bgVars, sigVars>>

InitLib ==
    /\ curve \in {NoCurve} \cup LibCurves \cup SigCurves
    /\ pt = InfPoint
    /\ Parallel = 1
    /\ pcMain = "idle"
    /\ pj = <<>>
    /\ q = InfPoint
    /\ jobs = <<>>
    /\ res = <<>>
    /\ cancelled = FALSE
    /\ ret = 0
    /\ key = NoKey
    /\ sig1 = NoSig
    /\ sig2 = NoSig
    /\ verdict = NoVerdict
    /\ solved = NoSolved
    /\ call = NoCall

NextLib ==
    \/ FieldAddCall
    \/ FieldMultiplyCall
    \/ InverseCall
    \/ SqrtCall
    \/ PrimeFactorsCall
    \/ EqualCall
    \/ NewCurveCall
    \/ AddCall
    \/ ScalarMCall
    \/ PointsCall
    \/ OrderCall
    \/ ReduceCall
    \/ BuildPublicKey
    \/ VerifyAny

SpecLib == InitLib /\ [][NextLib]_vars

-----------------------------------------------------------------------------
(* Properties of the order search *)

(* C1: when OrderBG has returned, its value is the naive Order of the     *)
(* same point, whichever worker's match was received.                     *)
C1_OrderAgreement == pcMain = "done" => ret = Order(curve, pt)

(* C2: OrderBG returns: the caller never waits on an empty channel with   *)
(* no worker left that could still find and send a match.                 *)
C2_OrderBGReturns ==
    (pcMain = "recv" /\ res = <<>>) =>
        \E i \in DOMAIN jobs : jobs[i].pc \in {"scan", "send"}

(* C3: the returned order does not depend on the winner: every match any  *)
(* worker has found resolves to the value OrderBG returned.               *)
C3_WinnerIndependence ==
    pcMain = "done" =>
        \A i \in DOMAIN jobs :
            jobs[i].pc \in {"send", "sent"} =>
                Resolve(curve, pt, jobs[i].jr) = ret

(* C4: after the caller has taken its one result, no worker is left at    *)
(* its send with the channel full (nothing will ever drain it again).     *)
C4_NoSenderBlocked ==
    pcMain = "done" =>
        \A i \in DOMAIN jobs : jobs[i].pc = "send" => Len(res) < ChanCap

-----------------------------------------------------------------------------
(* Properties of the signature scheme *)

(* sig1 is a signature rawSign returned and the key is still its key *)
Signed1 ==
    /\ sig1.via = "rawSign"
    /\ sig1.err = "nil"
    /\ key.D = sig1.d

(* C5: a signature rawSign returned without error verifies against the    *)
(* digest it was made over, under the public key d*G.                     *)
C5_RoundTrip ==
    (Signed1 /\ verdict /= NoVerdict /\ verdict.h = sig1.h) => verdict.ok

C5_RoundTripSeen ==
    /\ Signed1
    /\ verdict /= NoVerdict /\ verdict.h = sig1.h
    /\ verdict.ok
    /\ truncate(sig1.h, curve.BS) > curve.N

(* C6, as claimed: a signature made over h1 is rejected for every digest  *)
(* h2 different from h1.                                                  *)
C6_TamperAnyDigest ==
    (Signed1 /\ verdict /= NoVerdict /\ verdict.h /= sig1.h) => ~verdict.ok

(* no multiple of G other than k*G and -k*G has an x congruent to r *)
XOnlyAtNonce(c, r, k) ==
    \A u \in 1..(c.N - 1) :
        Canonicalize(c.N, ScalarM(c, u, c.G).X) = r =>
            u \in {k % c.N, (c.N - k) % c.N}

(* h2 is neither congruent to h1 after truncation nor its twin            *)
(* -z1 - 2rd, the digest that turns the nonce k into -k                   *)
ForeignDigest(c, sg, h2) ==
    LET z1 == truncate(sg.h, c.BS)
        z2 == truncate(h2, c.BS)
    IN /\ z2 % c.N /= z1 % c.N
       /\ z2 % c.N /= (-z1 - 2 * sg.r * sg.d) % c.N

(* C6, amended: a signature made over h1 is rejected for every digest h2  *)
(* whose truncated value is congruent modulo N neither to that of h1 nor  *)
(* to -z1 - 2rd, when r is the x of no multiple of G other than +-k*G.    *)
C6_TamperDetected ==
    (/\ Signed1
     /\ verdict /= NoVerdict
     /\ ForeignDigest(curve, sig1, verdict.h)
     /\ XOnlyAtNonce(curve, sig1.r, sig1.k)) => ~verdict.ok

C6_TamperRejectedSeen ==
    /\ Signed1
    /\ verdict /= NoVerdict
    /\ ForeignDigest(curve, sig1, verdict.h)
    /\ XOnlyAtNonce(curve, sig1.r, sig1.k)
    /\ ~verdict.ok

(* C7: from two signatures made with the same key and the same nonce and  *)
(* with s1 /= s2, solve returns exactly d and no error.                   *)
C7_NonceReuseRecovery ==
    (/\ solved /= NoSolved
     /\ sig1.k = sig2.k /\ sig1.d = sig2.d
     /\ sig1.s /= sig2.s) => (solved.err = "nil" /\ solved.d = sig1.d)

(* (r, s2, h2) is not what signing h2 with sig1's key and nonce gives *)
Inconsistent ==
    rawSign(curve, generateKey(curve, sig1.d), sig1.k, sig2.h)
        /= [r |-> sig1.r, s |-> sig2.s, err |-> "nil"]

(* C8: when its inputs are not two signatures of one key and one nonce,   *)
(* solve returns an error instead of a key.                               *)
C8_InconsistentDetected ==
    (solved /= NoSolved /\ Inconsistent) => solved.err /= "nil"

(* C9: the only error Sign returns is a failure of the random source.     *)
C9_SignHidesInvalidNonce ==
    sig1.via = "Sign" => sig1.err \in {"nil", "errRand"}

(* C10: two successful rawSign calls with the same k return the same r,   *)
(* whatever the two digests and the two private keys.                     *)
C10_RFromNonceAlone ==
    (/\ sig2 /= NoSig
     /\ sig1.err = "nil" /\ sig2.err = "nil"
     /\ sig1.k = sig2.k) => sig1.r = sig2.r

C10_SameNonceSeen ==
    /\ sig2 /= NoSig
    /\ sig1.err = "nil" /\ sig2.err = "nil"
    /\ sig1.k = sig2.k
    /\ sig1.d /= sig2.d
    /\ sig1.h /= sig2.h
    /\ sig1.r = sig2.r

(* what rawSign may return for a nonce k on a generator of order n *)
InSignatureRange(sg, n) ==
    /\ \/ sg.err = "nil" /\ sg.r \in 1..(n - 1) /\ sg.s \in 1..(n - 1)
       \/ sg.err = "errInvK" /\ sg.r = 0 /\ sg.s = 0
    /\ sg.k % n = 0 => sg.err = "errInvK"

(* C11: every result of rawSign is (r, s, nil) with r and s in [1, N), or  *)
(* (0, 0, errInvK); a nonce that is a multiple of N gives the error.      *)
C11_SignatureRange ==
    \A sg \in {sig1, sig2} :
        sg.via = "rawSign" => InSignatureRange(sg, curve.N)

C11_BothOutcomesSeen ==
    /\ sig1.via = "rawSign" /\ sig1.k = curve.N /\ sig1.err = "errInvK"
    /\ sig2.via = "rawSign" /\ sig2.err = "nil"
    /\ sig2.r \in 1..(curve.N - 1) /\ sig2.s \in 1..(curve.N - 1)

-----------------------------------------------------------------------------
(* Properties of the field *)

RECURSIVE Gcd(_, _)
Gcd(a, b) ==
    IF b = 0 THEN (IF a < 0 THEN -a ELSE a)
    ELSE Gcd(b, a % (IF b < 0 THEN -b ELSE b))

(* C20: Inverse(i) is the inverse of i for i in [1, p) coprime to p, and   *)
(* returns 0 and the not-invertible error for every i that has a common   *)
(* factor with p.                                                         *)
C20_InverseFailsOnCommonFactor ==
    call.op = "Inverse" =>
        /\ (call.i \in 1..(call.p - 1) /\ Gcd(call.i, call.p) = 1) =>
              /\ call.ok
              /\ call.val \in 1..(call.p - 1)
              /\ FMultiply(call.p, call.i, call.val) = 1
        /\ Gcd(call.i, call.p) > 1 => (~call.ok /\ call.val = 0)

-----------------------------------------------------------------------------
(* Properties of points and curves *)

(* C17: NewCurve fails for every prime p and every a, b in [0, p) whose    *)
(* curve is singular over the field (4a^3 + 27b^2 is 0 modulo p).         *)
C17_SingularRejected ==
    (/\ call.op = "NewCurve"
     /\ IsPrime(call.p)
     /\ call.a \in 0..(call.p - 1) /\ call.b \in 0..(call.p - 1)
     /\ (4 * call.a * call.a * call.a + 27 * call.b * call.b) % call.p = 0)
        => call.err /= "nil"

(* C18: Equal is true iff the infinity flags match and, for two finite    *)
(* points, both coordinates match; two identity points are equal whatever *)
(* their coordinates.                                                     *)
C18_EqualByFlagThenCoordinates ==
    call.op = "Equal" =>
        call.eq = (/\ call.p.Inf = call.cmp.Inf
                   /\ ~call.p.Inf =>
                         (call.p.X = call.cmp.X /\ call.p.Y = call.cmp.Y))

(* the curve is non-singular over its field *)
NonSingular(c) == (4 * c.A * c.A * c.A + 27 * c.B * c.B) % c.P /= 0

(* C13: on a non-singular curve Add is associative and commutative on all *)
(* valid points, the identity included.                                   *)
C13_AddAssociativeCommutative ==
    (call.op = "Add" /\ NonSingular(curve)) =>
        (call.lhs = call.rhs /\ call.pq = call.qp)

C13_ThreeFinitePointsSeen ==
    /\ call.op = "Add" /\ NonSingular(curve)
    /\ ~call.P.Inf /\ ~call.Q.Inf /\ ~call.R.Inf
    /\ call.P = call.Q /\ call.Q /= call.R
    /\ ~call.pq.Inf /\ ~call.lhs.Inf
    /\ call.lhs = call.rhs

(* P added to the identity k times *)
RECURSIVE AddTimes(_, _, _)
AddTimes(c, k, P) ==
    IF k = 0 THEN InfPoint ELSE Add(c, AddTimes(c, k - 1, P), P)

(* C14: ScalarM(k, P) is P added to the identity k times; ScalarM(0, P) is *)
(* the identity; nested scalar multiplications commute.                   *)
C14_ScalarMConsistent ==
    call.op = "ScalarM" =>
        /\ call.r = AddTimes(curve, call.k, call.P)
        /\ call.k = 0 => call.r = InfPoint
        /\ call.kd = call.dk

C14_WrapAroundSeen ==
    /\ call.op = "ScalarM"
    /\ ~call.P.Inf
    /\ call.k = MaxK /\ call.d = 3
    /\ \E m \in 1..(MaxK - 1) : ScalarM(curve, m, call.P).Inf
    /\ ~call.r.Inf /\ ~call.kd.Inf
    /\ call.r = AddTimes(curve, call.k, call.P)
    /\ call.kd = call.dk

(* C15: Points returns exactly the identity and every (x, y) in           *)
(* [0, p) x [0, p) that Valid accepts, on the square-root path            *)
(* (p mod 4 = 3) as on the brute-force path.                              *)
C15_PointsExact ==
    call.op = "Points" => call.pts = AllPoints(curve)

C15_SquareRootPathSeen ==
    /\ call.op = "Points"
    /\ curve.P % 4 = 3
    /\ \E p \in call.pts : ~p.Inf /\ p.Y = 0
    /\ \E p \in call.pts : ~p.Inf /\ 2 * p.Y > curve.P
    /\ call.pts = AllPoints(curve)

(* C16: on a non-singular curve Order(P) returns, without the abort, the  *)
(* least n >= 1 with n*P the identity: 1 for the identity, 2 for a point   *)
(* with y = 0.                                                            *)
C16_OrderIsLeast ==
    (call.op = "Order" /\ NonSingular(curve)) =>
        /\ call.n >= 1
        /\ ScalarM(curve, call.n, call.P).Inf
        /\ \A m \in 1..(call.n - 1) : ~ScalarM(curve, m, call.P).Inf
        /\ call.P.Inf => call.n = 1
        /\ (~call.P.Inf /\ call.P.Y = 0) => call.n = 2

C16_LongOrderSeen ==
    /\ call.op = "Order" /\ NonSingular(curve)
    /\ ~call.P.Inf
    /\ call.n > curve.P
    /\ ScalarM(curve, call.n, call.P).Inf

-----------------------------------------------------------------------------
(* Properties of Verify on arbitrary arguments *)

(* everything Verify tests before it accepts *)
VerifyPreconditions(c, pubP, r, s, h) ==
    LET z == truncate(h, c.BS)
        inv == Inverse(c.N, s)
        u1 == FMultiply(c.N, z, inv.val)
        u2 == FMultiply(c.N, r, inv.val)
        Rp == Add(c, ScalarM(c, u1, c.G), ScalarM(c, u2, pubP))
    IN /\ ~pubP.Inf
       /\ (pubP.Y * pubP.Y) % c.P
             = (pubP.X * pubP.X * pubP.X + c.A * pubP.X + c.B) % c.P
       /\ ScalarM(c, c.N, pubP).Inf
       /\ r \in 1..(c.N - 1)
       /\ s \in 1..(c.N - 1)
       /\ ~Rp.Inf
       /\ Canonicalize(c.N, Rp.X) % c.N = r

(* C12: when Verify returns true every precondition holds, and when one   *)
(* of them fails Verify returns false.                                    *)
C12_AcceptImpliesPreconditions ==
    call.op = "Verify" =>
        LET pre == VerifyPreconditions(curve, call.pub, call.r, call.s, call.h)
        IN /\ call.ok => pre
           /\ ~pre => (~call.panics /\ ~call.ok)

(* C21: for a prime p and -p < i < 0, Inverse(i) returns what              *)
(* Inverse(Canonicalize(i)) and InverseBig(i) return, so that             *)
(* Multiply(i, Inverse(i)) is 1.                                          *)
C21_InverseNormalizesNegative ==
    (/\ call.op = "Inverse"
     /\ IsPrime(call.p)
     /\ -call.p < call.i /\ call.i < 0) =>
        /\ call.ok
        /\ call.val = Inverse(call.p, Canonicalize(call.p, call.i)).val
        /\ call.val = call.big.val
        /\ FMultiply(call.p, call.i, call.val) = 1

(* i is a square modulo p *)
IsResidue(p, i) == \E x \in 0..(p - 1) : (x * x) % p = i

(* C22: for a prime p with p mod 4 = 3 and i in [0, p), Sqrt returns a     *)
(* root x in [0, p) with Multiply(x, x) = i when i is a square and an     *)
(* error when it is not; for p mod 4 /= 3 it returns an error for every i. *)
C22_SqrtRoundTrip ==
    (call.op = "Sqrt" /\ call.i \in 0..(call.p - 1)) =>
        /\ ~call.panics
        /\ (IsPrime(call.p) /\ call.p % 4 = 3 /\ IsResidue(call.p, call.i)) =>
              /\ call.ok
              /\ call.val \in 0..(call.p - 1)
              /\ FMultiply(call.p, call.val, call.val) = call.i
        /\ (IsPrime(call.p) /\ call.p % 4 = 3 /\ ~IsResidue(call.p, call.i)) =>
              ~call.ok
        /\ call.p % 4 /= 3 => ~call.ok

C22_RootSeen ==
    /\ call.op = "Sqrt"
    /\ call.p >= 19 /\ call.p % 4 = 3
    /\ call.i > 1
    /\ call.ok
    /\ call.val \notin {0, 1, call.i}
    /\ FMultiply(call.p, call.val, call.val) = call.i

RECURSIVE SeqProduct(_)
SeqProduct(s) == IF s = <<>> THEN 1 ELSE Head(s) * SeqProduct(Tail(s))

(* C23: for every n >= 1, PrimeFactors(n) is a non-decreasing list of      *)
(* primes, with repetition, whose product is n; it is empty for n = 1.     *)
C23_PrimeFactorsExact ==
    call.op = "PrimeFactors" =>
        /\ \A k \in DOMAIN call.pfs : IsPrime(call.pfs[k])
        /\ \A k \in 1..(Len(call.pfs) - 1) : call.pfs[k] <= call.pfs[k + 1]
        /\ SeqProduct(call.pfs) = call.n
        /\ call.n = 1 => call.pfs = <<>>

C23_RepeatedAndResidualSeen ==
    /\ call.op = "PrimeFactors"
    /\ Len(call.pfs) >= 4
    /\ call.pfs[1] = call.pfs[2]
    /\ call.pfs[3] = call.pfs[4]
    /\ call.pfs[Len(call.pfs)] > 3
    /\ SeqProduct(call.pfs) = call.n

(* C24: entered with a positive multiple mp of the order of P, the        *)
(* factor-reduction loop of OrderBG ends with mp equal to the order of P,  *)
(* and mp is a multiple of the order after every step.                     *)
C24_ReductionExact ==
    (/\ call.op = "Reduce"
     /\ NonSingular(curve)
     /\ call.mp % Order(curve, call.P) = 0) =>
        /\ call.out = Order(curve, call.P)
        /\ \A k \in DOMAIN call.steps :
              call.steps[k] % Order(curve, call.P) = 0

(* C25: whenever a worker sends (mp, j) on the result channel, either     *)
(* ScalarM(mp + j, P) or ScalarM(mp - j, P) is the identity, also when    *)
(* j = 0 and when the candidate is a finite point with x = 0.             *)
C25_MatchIsMultiple ==
    (NonSingular(curve) /\ Valid(curve, pt)) =>
        \A i \in DOMAIN jobs :
            jobs[i].pc \in {"send", "sent"} =>
                \/ ScalarM(curve, jobs[i].jr.mp + jobs[i].jr.j, pt).Inf
                \/ ScalarM(curve, jobs[i].jr.mp - jobs[i].jr.j, pt).Inf

(* a finite point with non-negative coordinates that is not on the curve: *)
(* a coordinate at or above p, or the curve equation fails modulo p       *)
OffCurve(c, pubP) ==
    /\ ~pubP.Inf
    /\ pubP.X >= 0 /\ pubP.Y >= 0
    /\ \/ pubP.X >= c.P
       \/ pubP.Y >= c.P
       \/ (pubP.Y * pubP.Y) % c.P
             /= (pubP.X * pubP.X * pubP.X + c.A * pubP.X + c.B) % c.P

(* C26: for every public point that is not on the curve, a coordinate at  *)
(* or above p included, Verify returns false and does not panic.           *)
C26_VerifyRejectsOffCurve ==
    (call.op = "Verify" /\ OffCurve(curve, call.pub)) =>
        /\ ~call.panics
        /\ ~call.ok

(* the identity, or a point on the curve with both coordinates in [0, p) *)
OnCurve(c, r) ==
    \/ r.Inf
    \/ /\ r.X \in 0..(c.P - 1) /\ r.Y \in 0..(c.P - 1)
       /\ (r.Y * r.Y) % c.P = (r.X * r.X * r.X + c.A * r.X + c.B) % c.P
       /\ Valid(c, r)

(* Add(p, qq) = r took the fallback only for qq = -p, which for qq = p is *)
(* the doubling of a point with y = 0                                     *)
FallbackJustified(c, p, qq, r) ==
    (~p.Inf /\ ~qq.Inf /\ r.Inf) =>
        /\ qq.X = p.X
        /\ qq.Y = (c.P - p.Y) % c.P

(* C27: on a non-singular curve over a prime p > 3, Add of valid points   *)
(* and ScalarM(k, P) for k >= 0 are the identity or a point on the curve   *)
(* with coordinates in [0, p), and Add returns the identity for two       *)
(* finite points only when Q = -P or when doubling a point with y = 0.    *)
C27_GroupLawClosed ==
    (curve /= NoCurve /\ NonSingular(curve) /\ curve.P > 3) =>
        /\ call.op = "Add" =>
              /\ OnCurve(curve, call.pq)
              /\ OnCurve(curve, call.lhs)
              /\ FallbackJustified(curve, call.P, call.Q, call.pq)
              /\ FallbackJustified(curve, call.pq, call.R, call.lhs)
        /\ call.op = "ScalarM" => OnCurve(curve, call.r)

C27_ChordThenInverseSeen ==
    /\ call.op = "Add"
    /\ NonSingular(curve) /\ curve.P > 3
    /\ ~call.P.Inf /\ ~call.Q.Inf /\ ~call.R.Inf
    /\ call.P /= call.Q
    /\ ~call.pq.Inf /\ call.pq \notin {call.P, call.Q}
    /\ call.R /= call.pq /\ call.R.Y /= 0
    /\ call.lhs.Inf

====
